---------------------------- MODULE Spec2Model ----------------------------
(***************************************************************************)
(* Model of task_manager.py: the list-of-dicts task table, its validation, *)
(* the add/update mutations, the filter/sort/overdue queries and the CSV   *)
(* export/import.                                                          *)
(*                                                                         *)
(* Python values are modelled as follows.                                  *)
(*   str   a sequence of one-character strings ("" is << >>), so that      *)
(*         str.strip and datetime.strptime are computed on the characters; *)
(*   None  the one-element sequence None (no str is equal to it, because   *)
(*         every element of a str is a single character);                  *)
(*   dict  a function from its keys to values; a key the dict lacks is     *)
(*         outside the DOMAIN;                                             *)
(*   list  a sequence;                                                     *)
(*   date  its proleptic Gregorian ordinal (date.toordinal()), with NoDate *)
(*         for the None that _validate_date returns;                       *)
(*   raise the name of the exception and its message in the "err" field of *)
(*         the record an operation returns (Ok when it returns normally).  *)
(***************************************************************************)
EXTENDS Integers, Sequences, FiniteSets, TLC

VARIABLES
    table,   \* cli_loop's `table`: the list of task dicts the caller holds
    file,    \* the CSV file at the path export writes and import reads
    op,      \* the operation called last
    args,    \* the arguments of that call
    before,  \* the content of the caller's list when the call was made
    err,     \* Ok, or the exception that call raised
    result   \* the value a query returned (NoResult for the other operations)

vars == <<table, file, op, args, before, err, result>>

---------------------------------------------------------------------------
(* Python values *)

None == <<"None">>
Empty == << >>

\* bool(v) for v a str or None: `v or w`, `if v`
Truthy(v) == v # None /\ v # Empty

\* v or w
Or(v, w) == IF Truthy(v) THEN v ELSE w

\* d.get(k, default)
Get(d, k, default) == IF k \in DOMAIN d THEN d[k] ELSE default

\* {**a, **b}
Merge(a, b) ==
    [k \in (DOMAIN a) \cup (DOMAIN b) |-> IF k \in DOMAIN b THEN b[k] ELSE a[k]]

Whitespace == {" ", "\t", "\n", "\r"}

RECURSIVE lstrip(_)
lstrip(s) ==
    IF s # Empty /\ Head(s) \in Whitespace THEN lstrip(Tail(s)) ELSE s

RECURSIVE rstrip(_)
rstrip(s) ==
    IF s # Empty /\ s[Len(s)] \in Whitespace
    THEN rstrip(SubSeq(s, 1, Len(s) - 1))
    ELSE s

\* str.strip()
strip(s) == rstrip(lstrip(s))

---------------------------------------------------------------------------
(* Schema *)

Low == <<"L", "o", "w">>
Medium == <<"M", "e", "d", "i", "u", "m">>
High == <<"H", "i", "g", "h">>
Urgent == <<"U", "r", "g", "e", "n", "t">>
PRIORITIES == <<Low, Medium, High, Urgent>>

ToDo == <<"T", "o", " ", "D", "o">>
InProgress == <<"I", "n", " ", "P", "r", "o", "g", "r", "e", "s", "s">>
Blocked == <<"B", "l", "o", "c", "k", "e", "d">>
Completed == <<"C", "o", "m", "p", "l", "e", "t", "e", "d">>
STATUSES == <<ToDo, InProgress, Blocked, Completed>>

COLUMNS ==
    << "task_id", "task_name", "description", "category", "priority", "status",
       "start_date", "due_date", "completion_date", "assigned_to", "notes",
       "last_updated" >>

Range(s) == {s[i] : i \in DOMAIN s}

---------------------------------------------------------------------------
(* Exceptions *)

Ok == "ok"
ErrNameNone == "AttributeError: 'NoneType' object has no attribute 'strip'"
ErrNameRequired == "ValueError: task_name is required"
ErrPriority == "ValueError: priority must be one of PRIORITIES"
ErrStatus == "ValueError: status must be one of STATUSES"
ErrStartFormat == "ValueError: start_date must be in YYYY-MM-DD format"
ErrDueFormat == "ValueError: due_date must be in YYYY-MM-DD format"
ErrCompletionFormat ==
    "ValueError: completion_date must be in YYYY-MM-DD format"
ErrStartAfterDue == "ValueError: start_date must be on or before due_date"
ErrCompletionStatus ==
    "ValueError: completion_date can only be set when status is 'Completed'"
ErrCompletionBeforeStart ==
    "ValueError: completion_date cannot be before start_date"
ErrDuplicateId == "ValueError: task_id must be unique"
ErrImmutableId == "ValueError: task_id is immutable"
ErrNotFound == "ValueError: task_id not found"
ErrCsvColumns == "ValueError: CSV columns do not match expected schema"
ErrCsvDuplicateId == "ValueError: Duplicate task_id found in CSV"
ErrNoFile == "FileNotFoundError"

---------------------------------------------------------------------------
(* Dates: datetime.strptime(date_str, "%Y-%m-%d").date() *)

DigitChars == <<"0", "1", "2", "3", "4", "5", "6", "7", "8", "9">>

IsDigit(c) == \E i \in DOMAIN DigitChars : DigitChars[i] = c

DigitVal(c) == (CHOOSE i \in DOMAIN DigitChars : DigitChars[i] = c) - 1

\* %Y is four digits; %m is 1[0-2]|0[1-9]|[1-9]; %d is
\* 3[01]|[12]\d|0[1-9]|[1-9]| [1-9]
MonthToken(t) ==
    \/ Len(t) = 1 /\ IsDigit(t[1]) /\ t[1] # "0"
    \/ Len(t) = 2 /\ t[1] = "0" /\ IsDigit(t[2]) /\ t[2] # "0"
    \/ Len(t) = 2 /\ t[1] = "1" /\ t[2] \in {"0", "1", "2"}

DayToken(t) ==
    \/ Len(t) = 1 /\ IsDigit(t[1]) /\ t[1] # "0"
    \/ Len(t) = 2 /\ t[1] \in {"0", " "} /\ IsDigit(t[2]) /\ t[2] # "0"
    \/ Len(t) = 2 /\ t[1] \in {"1", "2"} /\ IsDigit(t[2])
    \/ Len(t) = 2 /\ t[1] = "3" /\ t[2] \in {"0", "1"}

RECURSIVE TokenVal(_)
TokenVal(t) ==
    IF t = Empty THEN 0
    ELSE IF t[Len(t)] = " " THEN TokenVal(SubSeq(t, 1, Len(t) - 1))
    ELSE 10 * TokenVal(SubSeq(t, 1, Len(t) - 1)) + DigitVal(t[Len(t)])

\* The place of the dash that ends the month, 0 when there is none
MonthEnd(s) ==
    IF Len(s) >= 7 /\ s[7] = "-" THEN 7
    ELSE IF Len(s) >= 8 /\ s[8] = "-" THEN 8
    ELSE 0

\* Whether the whole of s matches the format
MatchesFormat(s) ==
    /\ Len(s) >= 8
    /\ \A i \in 1..4 : IsDigit(s[i])
    /\ s[5] = "-"
    /\ MonthEnd(s) # 0
    /\ MonthToken(SubSeq(s, 6, MonthEnd(s) - 1))
    /\ DayToken(SubSeq(s, MonthEnd(s) + 1, Len(s)))

IsLeap(y) == y % 4 = 0 /\ (y % 100 # 0 \/ y % 400 = 0)

DaysInMonth(y, m) ==
    IF m = 2 THEN (IF IsLeap(y) THEN 29 ELSE 28)
    ELSE IF m \in {4, 6, 9, 11} THEN 30
    ELSE 31

RECURSIVE DaysBeforeMonth(_, _)
DaysBeforeMonth(y, m) ==
    IF m = 1 THEN 0 ELSE DaysBeforeMonth(y, m - 1) + DaysInMonth(y, m - 1)

\* date(y, m, d).toordinal()
ToOrdinal(y, m, d) ==
    (y - 1) * 365 + ((y - 1) \div 4) - ((y - 1) \div 100) + ((y - 1) \div 400)
        + DaysBeforeMonth(y, m) + d

\* _validate_date's None
NoDate == 0

\* date.max.toordinal()
DateMax == ToOrdinal(9999, 12, 31)

\* [raised, date]: raised when strptime raises ValueError (no match, year 0,
\* a day the month does not have)
strptime(s) ==
    IF ~MatchesFormat(s) THEN [raised |-> TRUE, date |-> NoDate]
    ELSE
        LET y == TokenVal(SubSeq(s, 1, 4))
            m == TokenVal(SubSeq(s, 6, MonthEnd(s) - 1))
            d == TokenVal(SubSeq(s, MonthEnd(s) + 1, Len(s)))
        IN  IF y < 1 \/ d > DaysInMonth(y, m)
            THEN [raised |-> TRUE, date |-> NoDate]
            ELSE [raised |-> FALSE, date |-> ToOrdinal(y, m, d)]

_validate_date(date_str) ==
    IF date_str \in {None, Empty}
    THEN [raised |-> FALSE, date |-> NoDate]
    ELSE strptime(date_str)

---------------------------------------------------------------------------
(* Validation *)

\* ids.count(task_id)
CountId(tbl, task_id) ==
    Cardinality({i \in DOMAIN tbl : tbl[i]["task_id"] = task_id})

\* The check left out
CompletionCheckSkipped(task) == FALSE

\* task.get("completion_date") not in (None, "")
\*     and task.get("status") != "Completed"
CompletionWithoutCompleted(task) ==
    /\ Get(task, "completion_date", None) \notin {None, Empty}
    /\ Get(task, "status", None) # Completed

\* Ok, or the first exception raised, in the order of the checks
_validate_task_record(task, tbl) ==
    LET name == Get(task, "task_name", Empty)
        start == _validate_date(Get(task, "start_date", None))
        due == _validate_date(Get(task, "due_date", None))
        completion == _validate_date(Get(task, "completion_date", None))
    IN  IF name = None THEN ErrNameNone
        ELSE IF strip(name) = Empty THEN ErrNameRequired
        ELSE IF Get(task, "priority", None) \notin Range(PRIORITIES)
            THEN ErrPriority
        ELSE IF Get(task, "status", None) \notin Range(STATUSES)
            THEN ErrStatus
        ELSE IF start.raised THEN ErrStartFormat
        ELSE IF due.raised THEN ErrDueFormat
        ELSE IF completion.raised THEN ErrCompletionFormat
        ELSE IF start.date # NoDate /\ due.date # NoDate
                /\ start.date > due.date
            THEN ErrStartAfterDue
        ELSE IF CompletionWithoutCompleted(task) THEN ErrCompletionStatus
        ELSE IF completion.date # NoDate /\ start.date # NoDate
                /\ completion.date < start.date
            THEN ErrCompletionBeforeStart
        ELSE IF CountId(tbl, task["task_id"]) > 1 THEN ErrDuplicateId
        ELSE Ok

_ensure_columns(task) == [col \in Range(COLUMNS) |-> Get(task, col, None)]

---------------------------------------------------------------------------
(* Mutations.  An operation returns [err, ret, arg]: the exception raised   *)
(* (Ok for none), the value returned (NoResult when it raised) and the      *)
(* content, after the call, of the list object that was passed in.          *)

NoResult == << >>

Raise(e, arg) == [err |-> e, ret |-> NoResult, arg |-> arg]

Return(v, arg) == [err |-> Ok, ret |-> v, arg |-> arg]

\* new_table = table: the list passed in is the one written to
ListAliased(tbl, new_table) == new_table

\* new_table = list(table): new_table is a new list, so that appending to
\* it or assigning its items leaves the list passed in as it was
ListCopy(tbl, new_table) == tbl

\* task_data.get("task_id") or str(uuid.uuid4()), uuid being what uuid4
\* returns
NewTaskId(task_data, uuid) == Or(Get(task_data, "task_id", None), uuid)

\* The test left out
IdTakenUnchecked(tbl, task_id) == FALSE

\* any(row["task_id"] == task_id for row in new_table)
IdTaken(tbl, task_id) == \E i \in DOMAIN tbl : tbl[i]["task_id"] = task_id

\* now is what _now_iso() returns
add_task(tbl, task_data, uuid, now) ==
    LET task_id == NewTaskId(task_data, uuid)
    IN  IF IdTaken(tbl, task_id)
        THEN Raise(ErrDuplicateId, tbl)
        ELSE
            LET base_task ==
                    _ensure_columns(Merge(task_data,
                        [k \in {"task_id", "last_updated"} |->
                            IF k = "task_id" THEN task_id ELSE now]))
                v == _validate_task_record(base_task, Append(tbl, base_task))
                new_table == IF v = Ok THEN Append(tbl, base_task) ELSE tbl
            IN  IF v # Ok
                THEN Raise(v, ListCopy(tbl, new_table))
                ELSE Return(new_table, ListCopy(tbl, new_table))

Min(S) == CHOOSE x \in S : \A y \in S : x <= y

\* The places of all rows: the comparison with task_id left out
RowsWithAnyId(tbl, task_id) == DOMAIN tbl

\* The places of the rows with row["task_id"] == task_id
RowsWithId(tbl, task_id) == {i \in DOMAIN tbl : tbl[i]["task_id"] = task_id}

update_task(tbl, task_id, updates, now) ==
    IF "task_id" \in DOMAIN updates /\ updates["task_id"] # task_id
    THEN Raise(ErrImmutableId, tbl)
    ELSE
        LET found == RowsWithId(tbl, task_id)
        IN  IF found = {} THEN Raise(ErrNotFound, ListCopy(tbl, tbl))
            ELSE
                LET idx == Min(found)
                    row == tbl[idx]
                    recognised ==
                        [k \in (DOMAIN updates) \cap Range(COLUMNS) |->
                            updates[k]]
                    merged ==
                        [_ensure_columns(Merge(row, recognised))
                            EXCEPT !["task_id"] = task_id,
                                   !["last_updated"] = now]
                    new_table == [tbl EXCEPT ![idx] = merged]
                    v == _validate_task_record(merged, new_table)
                IN  IF v # Ok
                    THEN Raise(v, ListCopy(tbl, new_table))
                    ELSE Return(new_table, ListCopy(tbl, new_table))

---------------------------------------------------------------------------
(* Queries *)

\* The comparison made for every criterion, "" too
_matches_every_string(row, status, category, assigned_to) ==
    IF status # None /\ Get(row, "status", None) # status THEN FALSE
    ELSE IF category # None /\ Get(row, "category", None) # category
        THEN FALSE
    ELSE IF assigned_to # None /\ Get(row, "assigned_to", None) # assigned_to
        THEN FALSE
    ELSE TRUE

\* filter_tasks._matches
_matches(row, status, category, assigned_to) ==
    IF Truthy(status) /\ Get(row, "status", None) # status THEN FALSE
    ELSE IF Truthy(category) /\ Get(row, "category", None) # category
        THEN FALSE
    ELSE IF Truthy(assigned_to) /\ Get(row, "assigned_to", None) # assigned_to
        THEN FALSE
    ELSE TRUE

filter_tasks(tbl, status, category, assigned_to) ==
    Return(SelectSeq(tbl, LAMBDA row : _matches(row, status, category, assigned_to)),
           tbl)

\* The ranks the other way round: Urgent first
priority_rank_descending(priority) ==
    IF priority \in Range(PRIORITIES)
    THEN Len(PRIORITIES)
            - (CHOOSE i \in DOMAIN PRIORITIES : PRIORITIES[i] = priority)
    ELSE Len(PRIORITIES)

\* {name: idx for idx, name in enumerate(PRIORITIES)}
\*     .get(priority, len(PRIORITIES))
priority_rank(priority) ==
    IF priority \in Range(PRIORITIES)
    THEN (CHOOSE i \in DOMAIN PRIORITIES : PRIORITIES[i] = priority) - 1
    ELSE Len(PRIORITIES)

\* sort_tasks_by_priority_and_due_date._due_key, when _validate_date returns
_due_key(row) ==
    LET due == _validate_date(Get(row, "due_date", None)).date
    IN  IF due # NoDate THEN due ELSE DateMax

\* the key of the sort: (priority rank, due key)
SortKey(row) == <<priority_rank(Get(row, "priority", None)), _due_key(row)>>

\* tuple comparison k1 <= k2
KeyLeq(k1, k2) == k1[1] < k2[1] \/ (k1[1] = k2[1] /\ k1[2] <= k2[2])

\* sorted(): stable, an item goes after the items whose key is not greater
RECURSIVE sorted(_)
sorted(s) ==
    IF s = Empty THEN Empty
    ELSE
        LET x == s[Len(s)]
            front == sorted(SubSeq(s, 1, Len(s) - 1))
            n == Cardinality({i \in DOMAIN front :
                                KeyLeq(SortKey(front[i]), SortKey(x))})
        IN  SubSeq(front, 1, n) \o <<x>> \o SubSeq(front, n + 1, Len(front))

sort_tasks_by_priority_and_due_date(tbl) ==
    IF \E i \in DOMAIN tbl : _validate_date(Get(tbl[i], "due_date", None)).raised
    THEN Raise(ErrDueFormat, tbl)
    ELSE Return(sorted(tbl), tbl)

\* today is the date passed (NoDate for None), current what date.today()
\* returns
\* due <= today
DueNotAfter(due, day) == due <= day

\* due < today
DueBefore(due, day) == due < day

overdue_tasks(tbl, today, current) ==
    LET day == IF today # NoDate THEN today ELSE current
        due(row) == _validate_date(Get(row, "due_date", None))
    IN  IF \E i \in DOMAIN tbl : due(tbl[i]).raised
        THEN Raise(ErrDueFormat, tbl)
        ELSE Return(SelectSeq(tbl, LAMBDA row :
                        /\ due(row).date # NoDate
                        /\ DueBefore(due(row).date, day)
                        /\ Get(row, "status", None) # Completed),
                    tbl)

---------------------------------------------------------------------------
(* CSV.  A file is modelled by what csv.DictWriter is given and             *)
(* csv.DictReader gives back: the header's field names and, for each data   *)
(* row, one string per field.                                               *)

\* The path names no file
NoFile == [missing |-> TRUE]

\* writer.writerow({col: row.get(col, "") or "" for col in COLUMNS})
ExportRow(row) ==
    [j \in DOMAIN COLUMNS |-> Or(Get(row, COLUMNS[j], Empty), Empty)]

export_to_csv(tbl) ==
    [header |-> COLUMNS, rows |-> [i \in DOMAIN tbl |-> ExportRow(tbl[i])]]

\* cleaned = {col: row.get(col) for col in COLUMNS}: an empty cell stays ""
CleanedKeepingEmpty(cells, now) ==
    LET cleaned ==
            [col \in Range(COLUMNS) |->
                cells[CHOOSE j \in DOMAIN COLUMNS : COLUMNS[j] = col]]
    IN  [cleaned EXCEPT !["last_updated"] = Or(cleaned["last_updated"], now)]

\* cleaned = {col: (row.get(col) or None) for col in COLUMNS}, then
\* cleaned["last_updated"] = cleaned.get("last_updated") or _now_iso()
Cleaned(cells, now) ==
    LET cleaned ==
            [col \in Range(COLUMNS) |->
                Or(cells[CHOOSE j \in DOMAIN COLUMNS : COLUMNS[j] = col], None)]
    IN  [cleaned EXCEPT !["last_updated"] = Or(cleaned["last_updated"], now)]

\* The loop over the reader's rows, from row i on, new_table being the rows
\* appended so far
RECURSIVE ImportRows(_, _, _, _)
ImportRows(rows, i, new_table, now) ==
    IF i > Len(rows) THEN Return(new_table, Empty)
    ELSE
        LET cleaned == Cleaned(rows[i], now)
            v == _validate_task_record(cleaned, Append(new_table, cleaned))
        IN  IF \E k \in DOMAIN new_table :
                    new_table[k]["task_id"] = cleaned["task_id"]
            THEN Raise(ErrCsvDuplicateId, Empty)
            ELSE IF v # Ok THEN Raise(v, Empty)
            ELSE ImportRows(rows, i + 1, Append(new_table, cleaned), now)

import_from_csv(f, now) ==
    IF f = NoFile THEN Raise(ErrNoFile, Empty)
    ELSE IF f.header # COLUMNS THEN Raise(ErrCsvColumns, Empty)
    ELSE ImportRows(f.rows, 1, Empty, now)

---------------------------------------------------------------------------
(* Inputs *)

\* The most rows a table is grown to
MaxTable == 2

\* The same, in the specification of the CSV operations
MaxCsvTable == 2

\* The same, in the specification of the queries
MaxQueryTable == 3

T1 == <<"t", "1">>
T2 == <<"t", "2">>
TA == <<"A">>
TB == <<"B">>
TC == <<"C">>
TD == <<"D">>
TE == <<"E">>
NoSuchId == <<"z">>
NameA == <<"a">>
Blank == <<" ">>
Work == <<"w", "o", "r", "k">>
Bob == <<"b", "o", "b">>
Bogus == <<"?">>

\* 2024-mm-dd
Date(mm, dd) == <<"2", "0", "2", "4", "-">> \o mm \o <<"-">> \o dd

D0101 == Date(<<"0", "1">>, <<"0", "1">>)
D0104 == Date(<<"0", "1">>, <<"0", "4">>)
D0105 == Date(<<"0", "1">>, <<"0", "5">>)
D0110 == Date(<<"0", "1">>, <<"1", "0">>)
D0201 == Date(<<"0", "2">>, <<"0", "1">>)
D0230 == Date(<<"0", "2">>, <<"3", "0">>)

\* What str(uuid.uuid4()) may return
Uuids == {<<"u", "1">>}

\* What _now_iso() may return
Times == {<<"n", "1">>, <<"n", "2">>}

\* A dict with the one key k
Dict1(k, v) == [x \in {k} |-> v]

\* The dict with no key
Dict0 == [x \in {} |-> None]

\* d with d[k] = v
With(d, k, v) == Merge(d, Dict1(k, v))

\* d without the key k
Without(d, k) == [x \in (DOMAIN d) \ {k} |-> d[x]]

Base == [task_name |-> NameA, priority |-> Low, status |-> ToDo]

---------------------------------------------------------------------------
(* Operations of cli_loop on its table.  A call that raises leaves          *)
(* `table` bound to the list that was passed in (the assignment             *)
(* `table = f(table, ...)` is not reached); a call that returns binds it    *)
(* to the list returned.                                                    *)

Init ==
    /\ table = Empty
    /\ file = NoFile
    /\ op = "init"
    /\ args = Dict0
    /\ before = Empty
    /\ err = Ok
    /\ result = NoResult

\* max bounds the table: a call that would grow it further is not made
AddTask(Inputs, Nows, max) ==
    \E task_data \in Inputs, uuid \in Uuids, now \in Nows :
        LET r == add_task(table, task_data, uuid, now)
        IN  /\ r.err = Ok => Len(table) < max
            /\ table' = IF r.err = Ok THEN r.ret ELSE r.arg
            /\ op' = "add_task"
            /\ args' = [task_data |-> task_data]
            /\ before' = table
            /\ err' = r.err
            /\ result' = NoResult
            /\ UNCHANGED file

UpdateTask(Ids, Inputs, Nows) ==
    \E task_id \in Ids, updates \in Inputs, now \in Nows :
        LET r == update_task(table, task_id, updates, now)
        IN  /\ table' = IF r.err = Ok THEN r.ret ELSE r.arg
            /\ op' = "update_task"
            /\ args' = [task_id |-> task_id, updates |-> updates]
            /\ before' = table
            /\ err' = r.err
            /\ result' = NoResult
            /\ UNCHANGED file

ExportCsv ==
    /\ file' = export_to_csv(table)
    /\ op' = "export_to_csv"
    /\ args' = Dict0
    /\ before' = table
    /\ err' = Ok
    /\ result' = NoResult
    /\ UNCHANGED table

ImportCsv(Nows) ==
    \E now \in Nows :
        LET r == import_from_csv(file, now)
        IN  /\ table' = IF r.err = Ok THEN r.ret ELSE table
            /\ op' = "import_from_csv"
            /\ args' = Dict0
            /\ before' = table
            /\ err' = r.err
            /\ result' = NoResult
            /\ UNCHANGED file

\* The user puts a file of their own at the path
EditFile(Files) ==
    /\ file' \in Files
    /\ op' = "edit_file"
    /\ args' = Dict0
    /\ before' = table
    /\ err' = Ok
    /\ result' = NoResult
    /\ UNCHANGED table

FilterTasks(Statuses, Categories, Assignees) ==
    \E status \in Statuses, category \in Categories, assigned_to \in Assignees :
        LET r == filter_tasks(table, status, category, assigned_to)
        IN  /\ table' = r.arg
            /\ op' = "filter_tasks"
            /\ args' = [status |-> status, category |-> category,
                        assigned_to |-> assigned_to]
            /\ before' = table
            /\ err' = r.err
            /\ result' = r.ret
            /\ UNCHANGED file

SortTasks ==
    LET r == sort_tasks_by_priority_and_due_date(table)
    IN  /\ table' = r.arg
        /\ op' = "sort_tasks_by_priority_and_due_date"
        /\ args' = Dict0
        /\ before' = table
        /\ err' = r.err
        /\ result' = r.ret
        /\ UNCHANGED file

OverdueTasks(Todays, Currents) ==
    \E today \in Todays, current \in Currents :
        LET r == overdue_tasks(table, today, current)
        IN  /\ table' = r.arg
            /\ op' = "overdue_tasks"
            /\ args' = [today |-> today, current |-> current]
            /\ before' = table
            /\ err' = r.err
            /\ result' = r.ret
            /\ UNCHANGED file

---------------------------------------------------------------------------
(* Spec: add_task and update_task from the empty table *)

\* The task_id of task_data: none, None, "", or one the caller supplies
IdParts == {Dict0, Dict1("task_id", None), Dict1("task_id", Empty),
            Dict1("task_id", T1), Dict1("task_id", T2)}

AddBodies ==
    { Base,
      Without(Base, "task_name"),
      With(Base, "task_name", None),
      With(Base, "task_name", Empty),
      With(Base, "task_name", Blank),
      With(With(Base, "start_date", D0201), "due_date", D0101),
      With(With(Base, "start_date", D0105), "due_date", D0201),
      With(With(Without(Base, "task_name"), "start_date", D0201),
           "due_date", D0101),
      With(With(Base, "status", Completed), "completion_date", D0201),
      With(Base, "completion_date", D0201),
      With(Base, "priority", Bogus),
      With(Base, "due_date", D0230) }

AddInputs ==
    {Merge(Base, id) : id \in IdParts}
        \cup {With(body, "task_id", T1) : body \in AddBodies}

UpdateIds == {T1, T2, NoSuchId}

UpdateInputs ==
    { Dict0,
      Dict1("status", ToDo),
      Dict1("task_name", None),
      Dict1("task_name", Blank),
      Dict1("task_id", T1),
      Dict1("due_date", D0101),
      Dict1("bogus", Bogus) }

Add == AddTask(AddInputs, Times, MaxTable)

Update == UpdateTask(UpdateIds, UpdateInputs, Times)

Next == Add \/ Update

Spec == Init /\ [][Next]_vars

---------------------------------------------------------------------------
(* Properties of add_task and update_task, under Spec *)

Ids(tbl) == {tbl[i]["task_id"] : i \in DOMAIN tbl}

UniqueIds(tbl) ==
    \A i, j \in DOMAIN tbl : i # j => tbl[i]["task_id"] # tbl[j]["task_id"]

\* The call made was add_task with a task_id that a row of the table had
AddedSuppliedDuplicate ==
    /\ op = "add_task"
    /\ Truthy(Get(args.task_data, "task_id", None))
    /\ args.task_data["task_id"] \in Ids(before)

\* C1: after any sequence of add_task calls no two rows of the table share
\* a task_id, and an add_task whose supplied task_id is already in the table
\* raises "task_id must be unique", whatever else task_data holds, and
\* leaves the caller's table as it was before the call.
C1_UniqueIds ==
    /\ UniqueIds(table)
    /\ AddedSuppliedDuplicate => err = ErrDuplicateId /\ table = before

\* A table of two rows on which an add_task with a row's task_id was tried
C1_Witness == AddedSuppliedDuplicate /\ Len(table) = 2

\* C2: an update_task that raises leaves the list passed in as it was: the
\* same rows in the same order, each equal on every column.
C2_UpdateAllOrNothing ==
    (op = "update_task" /\ err # Ok) => table = before

\* An update that moves a row's status away from Completed while its
\* completion_date stays set was tried on a table of two rows
C2_Witness ==
    /\ op = "update_task"
    /\ err = ErrCompletionStatus
    /\ Get(args.updates, "status", None) = ToDo
    /\ "completion_date" \notin DOMAIN args.updates
    /\ Len(table) = 2

\* The exceptions that are validation errors: the ValueErrors of
\* _validate_task_record, add_task and update_task
ValidationErrors ==
    { ErrNameRequired, ErrPriority, ErrStatus, ErrStartFormat, ErrDueFormat,
      ErrCompletionFormat, ErrStartAfterDue, ErrCompletionStatus,
      ErrCompletionBeforeStart, ErrDuplicateId, ErrImmutableId }

\* A date field holds a value: neither None nor ""
Present(v) == v \notin {None, Empty}

DateOf(v) == _validate_date(v).date

\* Both dates are present and parse, and start_date is later than due_date
StartAfterDue(d) ==
    LET start == Get(d, "start_date", None)
        due == Get(d, "due_date", None)
    IN  /\ Present(start) /\ ~_validate_date(start).raised
        /\ Present(due) /\ ~_validate_date(due).raised
        /\ DateOf(start) > DateOf(due)

\* C6: add_task with start_date later than due_date raises a validation
\* error and leaves the table as it was, and every row of the table with
\* both dates present has start_date <= due_date.
C6_StartAfterDueRejected ==
    /\ (op = "add_task" /\ StartAfterDue(args.task_data))
            => err \in ValidationErrors /\ table = before
    /\ \A i \in DOMAIN table : ~StartAfterDue(table[i])

\* task_name is missing, None, empty or whitespace only
NameAbsentOrBlank(d) ==
    LET name == Get(d, "task_name", None)
    IN  name = None \/ strip(name) = Empty

\* The call made was add_task with no usable task_name and a task_id that
\* no row had, or update_task of a row of the table setting task_name to
\* such a value and leaving task_id alone
NameRejectedCase ==
    \/ /\ op = "add_task"
       /\ NameAbsentOrBlank(args.task_data)
       /\ Get(args.task_data, "task_id", None) = T1
       /\ T1 \notin Ids(before)
    \/ /\ op = "update_task"
       /\ "task_name" \in DOMAIN args.updates
       /\ NameAbsentOrBlank(args.updates)
       /\ "task_id" \notin DOMAIN args.updates
       /\ args.task_id \in Ids(before)

\* C7: add_task with a task_name that is missing, None, empty or whitespace
\* only raises "task_name is required" and no other exception, and leaves the
\* table as it was; so does an update_task that sets task_name to such a
\* value.
C7_NameRequired ==
    NameRejectedCase => err = ErrNameRequired /\ table = before

\* The call made was update_task with a task_id that no row had
UpdatedMissingId == op = "update_task" /\ args.task_id \notin Ids(before)

\* updates carries a task_id other than the one given
ChangesId(task_id, updates) ==
    "task_id" \in DOMAIN updates /\ updates["task_id"] # task_id

\* C8 as stated: update_task with a task_id that no row has raises "not
\* found" for every updates, also one with another task_id, and leaves the
\* table as it was.
C8_NotFoundAlways ==
    UpdatedMissingId => err = ErrNotFound /\ table = before

\* C8, amended: update_task with a task_id that no row has leaves the table
\* as it was and raises "not found", unless updates carries a task_id other
\* than the one given: then it raises "task_id is immutable".
C8_NotFoundUnlessIdChanged ==
    UpdatedMissingId =>
        /\ table = before
        /\ err = IF ChangesId(args.task_id, args.updates)
                 THEN ErrImmutableId
                 ELSE ErrNotFound

\* "not found" was raised on a table with rows, for updates that would not
\* have passed validation
C8_Witness ==
    /\ UpdatedMissingId
    /\ err = ErrNotFound
    /\ Len(before) > 0
    /\ NameAbsentOrBlank(args.updates)
    /\ "task_name" \in DOMAIN args.updates

---------------------------------------------------------------------------
(* SpecCsv: add_task, update_task, export_to_csv and import_from_csv, with  *)
(* files of the user's own at the path                                      *)

\* What _now_iso() returns while the CSV operations are run
CsvTimes == {<<"n", "1">>}

CsvIdParts == {Dict0, Dict1("task_id", T1)}

CsvAddBodies ==
    { Base,
      With(Base, "description", Empty),
      With(With(Base, "status", Completed), "completion_date", D0201),
      With(Base, "completion_date", D0201),
      With(Base, "completion_date", Empty) }

CsvAddInputs == {Merge(body, id) : body \in CsvAddBodies, id \in CsvIdParts}

CsvUpdateIds == {T1}

CsvUpdateInputs ==
    { Dict1("status", ToDo),
      With(Dict1("status", Completed), "completion_date", D0201),
      Dict1("completion_date", D0201),
      Dict1("completion_date", None) }

\* The file that holds the given dicts as rows under the header given
FileOf(header, dicts) ==
    [header |-> header,
     rows |-> [i \in DOMAIN dicts |-> ExportRow(dicts[i])]]

CompletedRow ==
    With(With(With(Base, "task_id", T1), "status", Completed),
         "completion_date", D0201)

UncompletedRow ==
    With(With(With(Base, "task_id", T2), "status", InProgress),
         "completion_date", D0201)

CsvFiles ==
    { NoFile,
      FileOf(Tail(COLUMNS), <<CompletedRow>>),
      FileOf(COLUMNS, <<CompletedRow>>),
      FileOf(COLUMNS, <<UncompletedRow>>),
      FileOf(COLUMNS, <<CompletedRow, UncompletedRow>>),
      FileOf(COLUMNS, <<CompletedRow, CompletedRow>>),
      FileOf(COLUMNS, <<CompletedRow, With(Base, "task_id", T2)>>),
      FileOf(COLUMNS, <<With(CompletedRow, "task_name", Empty)>>),
      FileOf(COLUMNS, <<With(CompletedRow, "last_updated", Empty)>>) }

AddCsv == AddTask(CsvAddInputs, CsvTimes, MaxCsvTable)

UpdateCsv == UpdateTask(CsvUpdateIds, CsvUpdateInputs, CsvTimes)

Import == ImportCsv(CsvTimes)

EditCsv == EditFile(CsvFiles)

NextCsv == AddCsv \/ UpdateCsv \/ ExportCsv \/ Import \/ EditCsv

SpecCsv == Init /\ [][NextCsv]_vars

---------------------------------------------------------------------------
(* Properties of the CSV operations, under SpecCsv *)

\* The call made was import_from_csv of the file export_to_csv wrote for
\* the table the caller held
ImportedOwnExport ==
    op = "import_from_csv" /\ file = export_to_csv(before)

DataColumns == Range(COLUMNS) \ {"last_updated"}

\* C3 as stated: importing the export of the table succeeds and yields the
\* same rows in the same order, equal on every column but last_updated.
C3_RoundTripExact ==
    ImportedOwnExport =>
        /\ err = Ok
        /\ Len(table) = Len(before)
        /\ \A i \in DOMAIN before : \A col \in DataColumns :
                table[i][col] = before[i][col]

\* C3, amended: importing the export of the table succeeds and yields the
\* same rows in the same order, equal on every column but last_updated,
\* except that a field that held "" comes back as None.
C3_RoundTripUpToEmpty ==
    ImportedOwnExport =>
        /\ err = Ok
        /\ Len(table) = Len(before)
        /\ \A i \in DOMAIN before : \A col \in DataColumns :
                table[i][col] =
                    IF before[i][col] = Empty THEN None ELSE before[i][col]

\* A table of two rows, one with an empty string and one with None in a
\* field, was exported and imported
C3_Witness ==
    /\ ImportedOwnExport
    /\ Len(before) = 2
    /\ \E i \in DOMAIN before : before[i]["description"] = Empty
    /\ \E i \in DOMAIN before : before[i]["description"] = None

\* C5: after every add_task, update_task and import_from_csv, every row of
\* the table whose completion_date holds a value has status Completed.
C5_CompletionOnlyWhenCompleted ==
    \A i \in DOMAIN table :
        Present(table[i]["completion_date"]) => table[i]["status"] = Completed

\* An update that moves status away from Completed and keeps the
\* completion_date was tried on a row that holds a completion_date, in a
\* table of two rows that an import brought in
C5_Witness ==
    /\ op = "update_task"
    /\ Get(args.updates, "status", None) = ToDo
    /\ "completion_date" \notin DOMAIN args.updates
    /\ Len(table) = 2
    /\ T2 \in Ids(table)
    /\ \E i \in DOMAIN table :
            /\ table[i]["task_id"] = args.task_id
            /\ Present(table[i]["completion_date"])

---------------------------------------------------------------------------
(* SpecQuery: tables built by add_task, and the queries on them *)

\* What _now_iso() returns while the queries' tables are built
QueryTimes == {<<"n", "1">>}

RowA == Merge(Base, [task_id |-> TA, priority |-> High, due_date |-> D0110])

RowB == Merge(Base, [task_id |-> TB, priority |-> High, due_date |-> D0105])

RowC == Merge(Base, [task_id |-> TC, priority |-> Low, due_date |-> D0101])

RowD ==
    Merge(Base, [task_id |-> TD, priority |-> Urgent, due_date |-> D0104,
                 status |-> Completed, category |-> Empty])

RowE ==
    Merge(Base, [task_id |-> TE, priority |-> High, status |-> Blocked,
                 category |-> Work, assigned_to |-> Bob])

QueryAddInputs == {RowA, RowB, RowC, RowD, RowE}

FilterStatuses == {None, Empty, Completed}

FilterCategories == {None, Empty, Work}

FilterAssignees == {None, Bob}

\* date.today() where the queries are run: 2024-01-05
QueryToday == DateOf(D0105)

\* The today passed to overdue_tasks: None, 2024-01-05, 2024-01-06
OverdueTodays == {NoDate, QueryToday, QueryToday + 1}

AddQuery == AddTask(QueryAddInputs, QueryTimes, MaxQueryTable)

Filter == FilterTasks(FilterStatuses, FilterCategories, FilterAssignees)

Overdue == OverdueTasks(OverdueTodays, {QueryToday})

NextQuery == AddQuery \/ Filter \/ SortTasks \/ Overdue

SpecQuery == Init /\ [][NextQuery]_vars

---------------------------------------------------------------------------
(* Properties of the queries, under SpecQuery *)

\* The task_ids of the rows, in order
IdsInOrder(tbl) == [i \in DOMAIN tbl |-> tbl[i]["task_id"]]

\* The call made was the sort of the table [A, B, C]: A of priority High
\* due 2024-01-10, B of priority High due 2024-01-05, C of priority Low due
\* 2024-01-01
SortedABC ==
    /\ op = "sort_tasks_by_priority_and_due_date"
    /\ IdsInOrder(before) = <<TA, TB, TC>>
    /\ \A i \in DOMAIN before : \A col \in {"priority", "due_date"} :
            before[i][col] = (<<RowA, RowB, RowC>>)[i][col]

\* C4 as stated: the sort of [A, B, C] yields [B, A, C].
C4_SortYieldsBAC ==
    SortedABC => err = Ok /\ result = <<before[2], before[1], before[3]>>

\* C4, amended: the sort of [A, B, C] yields [C, B, A]: Low ranks before
\* High, and among the two of priority High the earlier due date is first.
C4_SortYieldsCBA ==
    SortedABC => err = Ok /\ result = <<before[3], before[2], before[1]>>

C4_Witness == SortedABC /\ Len(result) = 3

\* The rows a criterion selects when only None is left out
MatchesUnlessNone(row, a) ==
    \A col \in {"status", "category", "assigned_to"} :
        a[col] # None => row[col] = a[col]

\* The rows a criterion selects when None and "" are left out
MatchesUnlessFalsy(row, a) ==
    \A col \in {"status", "category", "assigned_to"} :
        Truthy(a[col]) => row[col] = a[col]

\* C9 as stated: filter_tasks returns, in the table's order, the rows equal
\* to every criterion that is not None (a criterion "" selects the rows
\* whose field is ""), and leaves the table as it was.
C9_FilterIgnoresOnlyNone ==
    op = "filter_tasks" =>
        /\ err = Ok
        /\ result = SelectSeq(before, LAMBDA row : MatchesUnlessNone(row, args))
        /\ table = before

\* C9, amended: filter_tasks returns, in the table's order, the rows equal
\* to every criterion that is neither None nor "" (a criterion "" is
\* ignored like None), and leaves the table as it was.
C9_FilterIgnoresNoneAndEmpty ==
    op = "filter_tasks" =>
        /\ err = Ok
        /\ result = SelectSeq(before, LAMBDA row : MatchesUnlessFalsy(row, args))
        /\ table = before

\* A filter with the category "" was run on a table that has a row of
\* category "" and a row of another category
C9_Witness ==
    /\ op = "filter_tasks"
    /\ args.category = Empty
    /\ \E i \in DOMAIN before : before[i]["category"] = Empty
    /\ \E i \in DOMAIN before : before[i]["category"] # Empty
    /\ Len(result) = Len(before)

\* The day overdue_tasks compares with: today, or date.today() for None
OverdueDay == IF args.today # NoDate THEN args.today ELSE args.current

\* due_date is present, strictly before the day, and status is not Completed
IsOverdue(row, day) ==
    /\ Present(row["due_date"])
    /\ DateOf(row["due_date"]) < day
    /\ row["status"] # Completed

\* C10: overdue_tasks returns, in the table's order, exactly the rows whose
\* due_date is present and strictly before today and whose status is not
\* Completed: none with due_date = today, none without a due_date.
C10_OverdueBoundary ==
    op = "overdue_tasks" =>
        /\ err = Ok
        /\ result = SelectSeq(before, LAMBDA row : IsOverdue(row, OverdueDay))
        /\ \A i \in DOMAIN result :
                /\ Present(result[i]["due_date"])
                /\ DateOf(result[i]["due_date"]) # OverdueDay

\* overdue_tasks was run on a table with a row due today (B), a row due
\* earlier (C) and a Completed row due the day before (D), and returned C
\* alone
C10_Witness ==
    /\ op = "overdue_tasks"
    /\ OverdueDay = DateOf(D0105)
    /\ {TB, TC, TD} \subseteq Ids(before)
    /\ IdsInOrder(result) = <<TC>>

===========================================================================
